---- MODULE Spec2Model ----
(***************************************************************************)
(* Jubilee Inventory: the matching ledger of the two Streamlit apps.       *)
(*   src/jubilee_streamlit/app.py   the SQLite-backed app                  *)
(*   src/app.py                     the Google-Sheets-backed app           *)
(* Text is modelled as a sequence of one-character strings, so that split, *)
(* strip, isdigit, int and str are computed character by character.        *)
(* Streamlit itself (widgets, reruns) is abstracted: a widget's value is   *)
(* an input of the handler that reads it.  The Python of the handlers is   *)
(* modelled as written, exceptions included.                               *)
(***************************************************************************)
EXTENDS Integers, Sequences, FiniteSets, TLC

VARIABLES
    sheet,      \* src/app.py: the data rows of the Google sheet, in sheet order
    products,   \* src/jubilee_streamlit/app.py: the rows of table products
    last,       \* the operation that ran last, its inputs and its outcome
    view,       \* src/app.py: per browser session, what its script run holds in hand
    session_state   \* src/app.py: st.session_state of one session, the edit_rows_<row> keys

vars == << sheet, products, last, view, session_state >>

----------------------------------------------------------------------------
(* Bounds of the model *)

\* longest Matching text enumerated exhaustively for the parsers
MaxTextLen == 4
\* most entries of an enumerated breakdown / most filled rows of a form
MaxEntries == 3
\* most rows of a store drawn as the input of a check or a view
MaxRows == 2
\* most data rows of an uploaded CSV file
MaxCsvRows == 1
\* the stores stop growing at this many rows
MaxStoreRows == 3

----------------------------------------------------------------------------
(* Python text primitives *)

Digits == <<"0", "1", "2", "3", "4", "5", "6", "7", "8", "9">>
UpperLetters == <<"A", "B", "C", "D", "E", "M">>
LowerLetters == <<"a", "b", "c", "d", "e", "m">>

Range(s) == {s[i] : i \in DOMAIN s}

\* U+00B2 SUPERSCRIPT TWO, one character: str.isdigit() accepts it, int() does not
SuperTwo == "sup2"

\* the characters int() reads as decimal digits
IsDecimalChar(c) == c \in Range(Digits)
\* the characters str.isdigit() accepts
IsDigitChar(c) == IsDecimalChar(c) \/ c = SuperTwo
DigitVal(c) == (CHOOSE i \in DOMAIN Digits : Digits[i] = c) - 1
IsSpace(c) == c = " "

\* str.lower(), one character
LowerChar(c) ==
    IF c \in Range(UpperLetters)
    THEN LowerLetters[CHOOSE i \in DOMAIN UpperLetters : UpperLetters[i] = c]
    ELSE c
\* str.lower()
lower(s) == [i \in DOMAIN s |-> LowerChar(s[i])]

RECURSIVE lstrip(_)
lstrip(s) == IF s = <<>> \/ ~IsSpace(Head(s)) THEN s ELSE lstrip(Tail(s))
RECURSIVE rstrip(_)
rstrip(s) ==
    IF s = <<>> \/ ~IsSpace(s[Len(s)]) THEN s ELSE rstrip(SubSeq(s, 1, Len(s) - 1))
\* strip gone wrong: only the leading blanks are removed
strip_LeftOnly(s) == lstrip(s)

\* str.strip()
strip(s) == rstrip(lstrip(s))

\* str.isdigit() (false for the empty string)
isdigit(s) == s # <<>> /\ \A i \in DOMAIN s : IsDigitChar(s[i])

isdecimal(s) == s # <<>> /\ \A i \in DOMAIN s : IsDecimalChar(s[i])

\* the value of a run of decimal digits
RECURSIVE DigitsToInt(_)
DigitsToInt(s) ==
    IF s = <<>> THEN 0
    ELSE 10 * DigitsToInt(SubSeq(s, 1, Len(s) - 1)) + DigitVal(s[Len(s)])

\* str(n) for an int
RECURSIVE NatToStr(_)
NatToStr(n) ==
    IF n < 10 THEN << Digits[n + 1] >>
    ELSE NatToStr(n \div 10) \o << Digits[(n % 10) + 1] >>
str(n) == IF n < 0 THEN <<"-">> \o NatToStr(-n) ELSE NatToStr(n)

\* index of the first c in s, 0 when there is none
FirstIndex(s, c) ==
    IF \E i \in DOMAIN s : s[i] = c
    THEN CHOOSE i \in DOMAIN s : s[i] = c /\ \A j \in 1..(i - 1) : s[j] # c
    ELSE 0

\* s.split(c): always at least one part
RECURSIVE split(_, _)
split(s, c) ==
    LET i == FirstIndex(s, c) IN
    IF i = 0 THEN << s >>
    ELSE << SubSeq(s, 1, i - 1) >> \o split(SubSeq(s, i + 1, Len(s)), c)

\* s.split(c, 1) for a string that holds c: the text before and after the first c
split1(s, c) ==
    LET i == FirstIndex(s, c) IN
    << SubSeq(s, 1, i - 1), SubSeq(s, i + 1, Len(s)) >>

\* sep.join(parts)
RECURSIVE join(_, _)
join(parts, sep) ==
    IF parts = <<>> THEN <<>>
    ELSE IF Len(parts) = 1 THEN parts[1]
    ELSE parts[1] \o sep \o join(Tail(parts), sep)

\* int(s) of Python: blanks around, an optional sign, then digits only
PyInt(s) ==
    LET t == strip(s)
        u == IF t # <<>> /\ Head(t) \in {"-", "+"} THEN Tail(t) ELSE t
    IN  IF isdecimal(u)
        THEN [ok |-> TRUE,
              v  |-> IF t # <<>> /\ Head(t) = "-" THEN 0 - DigitsToInt(u) ELSE DigitsToInt(u)]
        ELSE [ok |-> FALSE, err |-> "ValueError"]

MinOf(S) == CHOOSE x \in S : \A y \in S : x <= y
MaxOf(S) == CHOOSE x \in S : \A y \in S : x >= y

RECURSIVE SumSeq(_)
SumSeq(s) == IF s = <<>> THEN 0 ELSE Head(s) + SumSeq(Tail(s))

----------------------------------------------------------------------------
(* MATCHING HELPERS of the SQLite app *)

\* ParsePart gone wrong: the color is kept as it stands between the separators
ParsePart_ColorNotStripped(part) ==
    IF ":" \in Range(part)
    THEN LET color == split1(part, ":")[1]
             pcs   == strip(split1(part, ":")[2])
         IN  IF isdigit(pcs)
             THEN IF PyInt(pcs).ok
                  THEN [ok |-> TRUE, pairs |-> << << color, PyInt(pcs).v >> >>]
                  ELSE [ok |-> FALSE, err |-> PyInt(pcs).err]
             ELSE [ok |-> TRUE, pairs |-> <<>>]
    ELSE [ok |-> TRUE, pairs |-> <<>>]

\* the loop body of parse_matching_string for one part: the pairs it appends, or
\* the exception of int(pcs)
ParsePart(part) ==
    IF ":" \in Range(part)
    THEN LET color == strip(split1(part, ":")[1])
             pcs   == strip(split1(part, ":")[2])
         IN  IF isdigit(pcs)
             THEN IF PyInt(pcs).ok
                  THEN [ok |-> TRUE, pairs |-> << << color, PyInt(pcs).v >> >>]
                  ELSE [ok |-> FALSE, err |-> PyInt(pcs).err]
             ELSE [ok |-> TRUE, pairs |-> <<>>]
    ELSE [ok |-> TRUE, pairs |-> <<>>]

\* the for loop of parse_matching_string: it ends at the first part that raises
RECURSIVE ParseParts(_)
ParseParts(parts) ==
    IF parts = <<>> THEN [ok |-> TRUE, pairs |-> <<>>]
    ELSE LET h == ParsePart(Head(parts)) IN
         IF ~h.ok THEN h
         ELSE LET r == ParseParts(Tail(parts)) IN
              IF ~r.ok THEN r ELSE [ok |-> TRUE, pairs |-> h.pairs \o r.pairs]

\* parse_matching_string: "Red:2, Blue:3" -> list of (color, pcs), and their sum
parse_matching_string(matching) ==
    LET r == IF matching # <<>> THEN ParseParts(split(matching, ","))
                                ELSE [ok |-> TRUE, pairs |-> <<>>]
    IN  IF r.ok
        THEN [ok |-> TRUE, pairs |-> r.pairs,
              total |-> SumSeq([i \in DOMAIN r.pairs |-> r.pairs[i][2]])]
        ELSE r

\* the loop body of build_matching_string for one (color, pcs): the values it appends
BuildPart(pair) ==
    LET color   == strip(pair[1])
        pcs_str == strip(str(pair[2]))
    IN  IF color # <<>> /\ isdigit(pcs_str)
        THEN << DigitsToInt(pcs_str) >>
        ELSE <<>>

BuildText(pair) == strip(pair[1]) \o <<":">> \o str(DigitsToInt(strip(str(pair[2]))))

RECURSIVE BuildParts(_)
BuildParts(pairs) ==
    IF pairs = <<>> THEN <<>>
    ELSE (IF BuildPart(Head(pairs)) # <<>> THEN << BuildText(Head(pairs)) >> ELSE <<>>)
         \o BuildParts(Tail(pairs))

RECURSIVE BuildTotal(_)
BuildTotal(pairs) ==
    IF pairs = <<>> THEN 0
    ELSE SumSeq(BuildPart(Head(pairs))) + BuildTotal(Tail(pairs))

\* build_matching_string: list of (color, pcs) -> "Color:pcs, Color:pcs", and the sum
build_matching_string(pairs) ==
    [text |-> join(BuildParts(pairs), <<",", " ">>), total |-> BuildTotal(pairs)]

\* build_matching_string(parse_matching_string(s)[0])[0]: a Matching text read and
\* written again
reserialize(matching) ==
    LET p == parse_matching_string(matching) IN
    IF ~p.ok THEN p ELSE [ok |-> TRUE, text |-> build_matching_string(p.pairs).text]

\* matching_editor, from the rows typed into it: rows with a blank color are left
\* out, the rest is serialized (the PCS inputs have min_value=0)
matching_editor(rows) ==
    build_matching_string(SelectSeq(rows, LAMBDA r : strip(r[1]) # <<>>))

----------------------------------------------------------------------------
(* The MATCHING block of the Sheets forms *)

\* d[k] = v on a Python dict, kept as the list of its items: a key the dict holds
\* keeps its place and takes the new value
DictSet(d, k, v) ==
    IF \E i \in DOMAIN d : d[i][1] = k
    THEN [i \in DOMAIN d |-> IF d[i][1] = k THEN << k, v >> ELSE d[i]]
    ELSE Append(d, << k, v >>)

\* the loop that fills matching_dict / matching_edit_dict from the form's rows
RECURSIVE FillDict(_, _)
FillDict(d, rows) ==
    IF rows = <<>> THEN d
    ELSE FillDict(IF Head(rows)[1] # <<>> THEN DictSet(d, Head(rows)[1], Head(rows)[2]) ELSE d,
                  Tail(rows))

\* f"{k}:{v}"
ItemText(item) == item[1] \o <<":">> \o str(item[2])

\* matching / matching_str and pcs of the add and edit forms, from the rows typed
sheet_form(rows) ==
    LET matching_dict == FillDict(<<>>, rows)
        kept == SelectSeq(matching_dict, LAMBDA it : it[2] > 0)
    IN  [matching |-> join([i \in DOMAIN kept |-> ItemText(kept[i])], <<",", " ">>),
         pcs      |-> SumSeq([i \in DOMAIN matching_dict |-> matching_dict[i][2]])]

\* s.strip().split(":")
ColonParts(seg) == split(strip(seg), ":")

\* existing_matching_parts, then the list kept as edit_rows_<row> on the first view
edit_rows_init(matching) ==
    LET segs  == split(matching, ",")
        with  == SelectSeq(segs, LAMBDA sg : ":" \in Range(sg))
        parts == [i \in DOMAIN with |-> ColonParts(with[i])[1]]
    IN  IF parts # <<>> THEN parts ELSE << <<"C", "o", "l", "o", "r", "1">> >>

\* val of one color field: next(int(...[1]) for s in ... if ...[0] == color_name, 0),
\* or the exception the first matching segment raises
prefill_val(matching, color_name) ==
    LET segs == split(matching, ",")
        hits == SelectSeq(segs, LAMBDA sg : ColonParts(sg)[1] = color_name)
    IN  IF hits = <<>> THEN [ok |-> TRUE, v |-> 0]
        ELSE IF Len(ColonParts(hits[1])) < 2 THEN [ok |-> FALSE, err |-> "IndexError"]
        ELSE PyInt(ColonParts(hits[1])[2])

\* the color fields of the edit form, in order, up to the first one that raises
RECURSIVE PrefillRows(_, _)
PrefillRows(matching, names) ==
    IF names = <<>> THEN [ok |-> TRUE, rows |-> <<>>]
    ELSE LET h == prefill_val(matching, Head(names)) IN
         IF ~h.ok THEN h
         ELSE LET r == PrefillRows(matching, Tail(names)) IN
              IF ~r.ok THEN r
              ELSE [ok |-> TRUE, rows |-> << << Head(names), h.v >> >> \o r.rows]

\* the pre-filling of the edit form from the stored Matching text
edit_prefill(matching) == PrefillRows(matching, edit_rows_init(matching))

\* the edit form opened on a stored Matching text and left as pre-filled: the
\* matching_str and pcs that Update would write
edit_form_untouched(matching) ==
    LET p == edit_prefill(matching) IN
    IF ~p.ok THEN p
    ELSE [ok |-> TRUE, matching |-> sheet_form(p.rows).matching, pcs |-> sheet_form(p.rows).pcs]

----------------------------------------------------------------------------
(* DB LAYER and table view of the SQLite app *)

\* Python's None
None == 0

\* the SELECT COUNT(*) of dno_exists: = on TEXT compares byte by byte (BINARY), the
\* company is not looked at, and "if exclude_id" takes None for no exclusion
dno_count(rows, dno, exclude_id) ==
    Cardinality({r \in rows : r.dno = dno /\ (exclude_id # None => r.id # exclude_id)})

\* cur.fetchone(): the row (count,), a tuple
fetchone(rows, dno, exclude_id) == [type |-> "tuple", items |-> << dno_count(rows, dno, exclude_id) >>]

\* a > b of Python 3 between an int or a tuple and an int
PyGreater(a, b) ==
    IF a.type = "int" THEN [ok |-> TRUE, v |-> a.v > b]
    ELSE [ok |-> FALSE, err |-> "TypeError"]

\* dno_exists: exists = cur.fetchone() > 0
dno_exists(rows, dno, exclude_id) == PyGreater(fetchone(rows, dno, exclude_id), 0)

\* the 12 columns of SELECT * FROM products; the columns the ledger does not read
\* (diamond, assignee, type, image) are carried as empty text
RowTuple(r) ==
    << r.id, r.company, r.dno, r.matching, <<>>, r.pcs, r.delivery_pcs, <<>>, <<>>,
       r.rate, r.total, <<>> >>

\* t[i] of a Python tuple, counted from 0
TupleGet(t, i) ==
    IF i < Len(t) THEN [ok |-> TRUE, v |-> t[i + 1]] ELSE [ok |-> FALSE, err |-> "IndexError"]

\* the column numbers load_table_dataframe reads for PCS, DELIVERY PCS and D.NO.
PcsIndex == 27
DeliveryIndex == 28
DnoIndex == 24

\* the try block of load_table_dataframe: pending of one row, 0 on any exception
row_pending(t) ==
    IF TupleGet(t, PcsIndex).ok /\ TupleGet(t, DeliveryIndex).ok
    THEN TupleGet(t, PcsIndex).v - TupleGet(t, DeliveryIndex).v
    ELSE 0

\* load_table_dataframe over the fetched rows: the Pending column, or the exception
\* of data.append([... r[24] ...]), which no try covers
load_table_dataframe(rows) ==
    IF \E i \in DOMAIN rows : ~TupleGet(rows[i], DnoIndex).ok
    THEN [ok |-> FALSE, err |-> "IndexError",
          pending |-> [i \in DOMAIN rows |-> row_pending(rows[i])]]
    ELSE [ok |-> TRUE, pending |-> [i \in DOMAIN rows |-> row_pending(rows[i])]]

\* fetch_all as a list, in id order
RECURSIVE SortById(_)
SortById(rows) ==
    IF rows = {} THEN <<>>
    ELSE LET r == CHOOSE x \in rows : \A y \in rows : x.id <= y.id
         IN  << RowTuple(r) >> \o SortById(rows \ {r})
fetch_all(rows) == SortById(rows)

----------------------------------------------------------------------------
(* The duplicate scans and the Pending column of the Sheets app *)

\* sheet_conflict gone wrong: the keys are compared as typed
sheet_conflict_CaseSensitive(existing, company, dno) ==
    \E i \in DOMAIN existing : existing[i].company = company /\ existing[i].dno = dno

\* show_add_form: conflict = next((r for r in existing if ...lower() == ...), None)
sheet_conflict(existing, company, dno) ==
    \E i \in DOMAIN existing :
        /\ lower(existing[i].company) = lower(company)
        /\ lower(existing[i].dno) = lower(dno)

\* show_inventory, Update: "for existing_row in existing" reads a name that the
\* function never binds and the module does not define
edit_duplicate_scan(company, dno, row_num) == [ok |-> FALSE, err |-> "NameError"]

\* show_inventory: df["Pending"] = df["PCS"] - df["Delivery_PCS"]
sheet_pending(rows) == [i \in DOMAIN rows |-> rows[i].pcs - rows[i].delivery]

----------------------------------------------------------------------------
(* Inputs *)

Red   == <<"R", "e", "d">>
Blue  == <<"B", "l", "u", "e">>
Green == <<"G", "r", "e", "e", "n">>

\* the characters of the enumerated Matching texts
TextAlphabet == {"R", "x", ":", ",", " ", "2", "-", SuperTwo}
SeqsUpTo(S, n) == UNION {[1..k -> S] : k \in 0..n}

\* "Red:2, junk, Blue:x, Green:5"
TolerantExample ==
    Red \o <<":", "2", ",", " ", "j", "u", "n", "k", ",", " ">> \o Blue
    \o <<":", "x", ",", " ">> \o Green \o <<":", "5">>

Texts == SeqsUpTo(TextAlphabet, MaxTextLen) \cup {TolerantExample}

\* colors typed into a form, and piece counts
FormColors == {Red, Blue, <<" ", "R">>, <<>>}
FormPieces == {-1, 0, 1, 2, 12}
Breakdowns == SeqsUpTo(FormColors \X FormPieces, MaxEntries)
\* what the forms can hold: st.number_input(min_value=0)
FormRows == SeqsUpTo(FormColors \X (FormPieces \ {-1}), MaxEntries)

\* well-formed Matching texts: entries of a non-empty trimmed color and a positive
\* count, written with the blanks of pads before and after each color and count
WellFormedColors == {Red, <<"R", " ", "x">>}
WellFormedPieces == {1, 12}
WellFormedBreakdowns == SeqsUpTo(WellFormedColors \X WellFormedPieces, MaxEntries)
Pads == [1..4 -> {<<>>, <<" ">>}]
SpacedEntry(pair, pads) ==
    pads[1] \o pair[1] \o pads[2] \o <<":">> \o pads[3] \o str(pair[2]) \o pads[4]
SpacedText(b, pads) == join([i \in DOMAIN b |-> SpacedEntry(b[i], pads)], <<",">>)
\* "Color:N, Color:N"
CanonicalText(b) ==
    join([i \in DOMAIN b |-> b[i][1] \o <<":">> \o str(b[i][2])], <<",", " ">>)

\* business keys: two spellings of one company, two of one design number, and others
Acme      == <<"A", "c", "m", "e">>
AcmeUpper == <<"A", "C", "M", "E">>
Beta      == <<"B", "e", "t", "a">>
D100      == <<"D", "1", "0", "0">>
D100Lower == <<"d", "1", "0", "0">>
D200      == <<"D", "2", "0", "0">>
Companies == {Acme, AcmeUpper, Beta}
Dnos == {D100, D100Lower, D200}

\* what is typed into the Company and D.NO boxes (a blank after a name is stripped)
CompanyInputs == {<<>>, Acme \o <<" ">>, AcmeUpper}
DnoInputs == {<<>>, D100, D200}

\* the color rows typed into a form that is submitted to a store
StoreForms ==
    { << << <<"R">>, 3 >>, << <<"B">>, 2 >> >>, << << <<"R">>, 0 >> >>,
      << << <<"R", ":", "1">>, 2 >> >> }
Deliveries == {3}
Rates == {2, 10}

\* stores drawn as inputs of the uniqueness checks and of the views
KeyRow(id, c, d) ==
    [id |-> id, company |-> c, dno |-> d, matching |-> <<>>, pcs |-> 0,
     delivery_pcs |-> 0, rate |-> 0, total |-> 0]
\* the tables of up to MaxRows rows, no two rows sharing an id
Tables ==
    UNION {{{KeyRow(id, f[id][1], f[id][2]) : id \in I} : f \in [I -> Companies \X Dnos]} :
            I \in SUBSET (1..MaxRows)}
SheetKeyRow(c, d) ==
    [company |-> c, dno |-> d, matching |-> <<>>, pcs |-> 0, delivery |-> 0,
     rate |-> 0, total |-> 0]
SheetLists == SeqsUpTo({SheetKeyRow(c, d) : c \in Companies, d \in Dnos}, MaxRows)
ViewPieces == {0, 5}
ViewDelivered == {0, 8}
ViewTables ==
    UNION {{{[KeyRow(id, Acme, D100) EXCEPT !.pcs = f[id][1], !.delivery_pcs = f[id][2]] :
                id \in I} : f \in [I -> ViewPieces \X ViewDelivered]} :
            I \in SUBSET (1..MaxRows)}
ViewSheets ==
    SeqsUpTo({[SheetKeyRow(Acme, D100) EXCEPT !.pcs = n, !.delivery = d] :
                 n \in ViewPieces, d \in ViewDelivered}, MaxRows)

\* an uploaded CSV file: its header row matches or not, and its data rows, each a
\* list of 12 texts
ExpectedHeader ==
    << "ID", "COMPANY NAME", "D.NO.", "MATCHING", "Diamond", "PCS", "DELIVERY PCS",
       "Assignee", "Type", "Rate", "Total", "Image" >>
\* the expected names with the first two exchanged, and without the last one
HeaderSwapped == [i \in DOMAIN ExpectedHeader |->
                    IF i = 1 THEN ExpectedHeader[2]
                    ELSE IF i = 2 THEN ExpectedHeader[1] ELSE ExpectedHeader[i]]
HeaderShort == SubSeq(ExpectedHeader, 1, Len(ExpectedHeader) - 1)
Headers == {ExpectedHeader, << "D.NO.", "Company", "Type" >>, HeaderSwapped, HeaderShort}
ExpectedHeaderLen == 12
CsvRow(id, c, d, m, n) ==
    << id, c, d, m, <<>>, n, <<"0">>, <<>>, <<>>, <<"2">>, <<"4">>, <<>> >>
\* a numeric field that is no number
BadNumber == <<"x">>
\* a row whose PCS is no number, one whose Rate is no number, one without a company
CsvRowBadPcs == CsvRow(<<"3">>, Beta, D200, <<"R", ":", "2">>, BadNumber)
CsvRowBadRate ==
    [CsvRow(<<"4">>, Beta, D100, <<"R", ":", "2">>, <<"2">>) EXCEPT ![10] = BadNumber]
CsvRowNoCompany == CsvRow(<<"5">>, <<>>, D200, <<"R", ":", "2">>, <<"2">>)
CsvRows ==
    {CsvRow(<<"1">>, Acme, D100, <<"R", ":", "2">>, <<"2">>),
     CsvRow(<<"2">>, AcmeUpper, D100Lower, <<"R", ":", "2">>, <<"5">>),
     << <<"1">>, Acme, D100 >>,
     CsvRowBadPcs, CsvRowBadRate, CsvRowNoCompany}
CsvFiles == SeqsUpTo(CsvRows, MaxCsvRows)
\* files of two rows: a row without a company before and after a complete row
CsvRowGood == CsvRow(<<"1">>, Acme, D100, <<"R", ":", "2">>, <<"2">>)
TwoRowFiles == { << CsvRowNoCompany, CsvRowGood >>, << CsvRowGood, CsvRowNoCompany >> }

----------------------------------------------------------------------------
(* The state machine *)

Idle == [op |-> "none"]

\* the browser sessions, and a session that has read nothing and has no add under way
Sessions == {1, 2}
NoView == [df |-> <<>>, add |-> <<>>]

Init ==
    /\ sheet = <<>>
    /\ products = {}
    /\ last = Idle
    /\ view = [s \in Sessions |-> NoView]
    /\ session_state = << >>

\* one application of a function of the ledger to an enumerated input
CallParse ==
    /\ last = Idle
    /\ \E t \in Texts :
        /\ last' = [op |-> "parse_matching_string", arg |-> t,
                    res |-> parse_matching_string(t)]
        /\ UNCHANGED << sheet, products, view, session_state >>

CallBuild ==
    /\ last = Idle
    /\ \E b \in Breakdowns :
        /\ last' = [op |-> "build_matching_string", arg |-> b,
                    res |-> build_matching_string(b)]
        /\ UNCHANGED << sheet, products, view, session_state >>

CallRoundTrip ==
    /\ last = Idle
    /\ \E b \in Breakdowns :
        /\ last' = [op |-> "round_trip", arg |-> b,
                    res |-> parse_matching_string(build_matching_string(b).text)]
        /\ UNCHANGED << sheet, products, view, session_state >>

CallMatchingEditor ==
    /\ last = Idle
    /\ \E rows \in FormRows :
        /\ last' = [op |-> "matching_editor", arg |-> rows, res |-> matching_editor(rows)]
        /\ UNCHANGED << sheet, products, view, session_state >>

CallSheetForm ==
    /\ last = Idle
    /\ \E rows \in FormRows :
        /\ last' = [op |-> "sheet_form", arg |-> rows, res |-> sheet_form(rows)]
        /\ UNCHANGED << sheet, products, view, session_state >>

CallEditPrefill ==
    /\ last = Idle
    /\ \E t \in Texts :
        /\ last' = [op |-> "edit_prefill", arg |-> t, res |-> edit_prefill(t)]
        /\ UNCHANGED << sheet, products, view, session_state >>

CallDnoExists ==
    /\ last = Idle
    /\ \E T \in Tables, c \in Companies, d \in Dnos, ex \in {None} \cup (1..MaxRows) :
        /\ last' = [op |-> "dno_exists", rows |-> T, company |-> c, dno |-> d,
                    exclude_id |-> ex, res |-> dno_exists(T, d, ex)]
        /\ UNCHANGED << sheet, products, view, session_state >>

CallSheetConflict ==
    /\ last = Idle
    /\ \E L \in SheetLists, c \in Companies, d \in Dnos :
        /\ last' = [op |-> "sheet_conflict", rows |-> L, company |-> c, dno |-> d,
                    res |-> [ok |-> TRUE, v |-> sheet_conflict(L, c, d)]]
        /\ UNCHANGED << sheet, products, view, session_state >>

CallEditDuplicateScan ==
    /\ last = Idle
    /\ \E L \in SheetLists, c \in Companies, d \in Dnos, n \in 2..(MaxRows + 1) :
        /\ n <= Len(L) + 1
        /\ last' = [op |-> "edit_duplicate_scan", rows |-> L, company |-> c, dno |-> d,
                    row_num |-> n, res |-> edit_duplicate_scan(c, d, n)]
        /\ UNCHANGED << sheet, products, view, session_state >>

CallLoadTable ==
    /\ last = Idle
    /\ \E T \in ViewTables :
        /\ last' = [op |-> "load_table_dataframe", rows |-> T,
                    res |-> load_table_dataframe(fetch_all(T))]
        /\ UNCHANGED << sheet, products, view, session_state >>

CallSheetPending ==
    /\ last = Idle
    /\ \E L \in ViewSheets :
        /\ last' = [op |-> "sheet_pending", rows |-> L,
                    res |-> [ok |-> TRUE, pending |-> sheet_pending(L)]]
        /\ UNCHANGED << sheet, products, view, session_state >>

CallReserialize ==
    /\ last = Idle
    /\ \E b \in WellFormedBreakdowns, pads \in Pads :
        /\ last' = [op |-> "reserialize", breakdown |-> b, pads |-> pads,
                    arg |-> SpacedText(b, pads),
                    once |-> reserialize(SpacedText(b, pads)),
                    canonical |-> reserialize(CanonicalText(b))]
        /\ UNCHANGED << sheet, products, view, session_state >>

CallReserializeText ==
    /\ last = Idle
    /\ \E t \in Texts :
        /\ last' = [op |-> "reserialize_text", arg |-> t, once |-> reserialize(t)]
        /\ UNCHANGED << sheet, products, view, session_state >>

\* the add forms whose product is then opened in the edit form
EditedForms == SeqsUpTo(FormColors \X {0, 1, 2}, MaxEntries) \cup StoreForms

\* a product written by the add form (PCS > 0), then opened in the edit form
CallEditUntouched ==
    /\ last = Idle
    /\ \E rows \in EditedForms :
        LET stored == sheet_form(rows)
        IN  /\ stored.pcs > 0
            /\ last' = [op |-> "edit_form_untouched", arg |-> rows, stored |-> stored,
                        res |-> edit_form_untouched(stored.matching)]
        /\ UNCHANGED << sheet, products, view, session_state >>

FnNext ==
    \/ CallEditUntouched
    \/ CallReserialize
    \/ CallReserializeText
    \/ CallDnoExists
    \/ CallSheetConflict
    \/ CallEditDuplicateScan
    \/ CallLoadTable
    \/ CallSheetPending
    \/ CallParse
    \/ CallBuild
    \/ CallRoundTrip
    \/ CallMatchingEditor
    \/ CallSheetForm
    \/ CallEditPrefill

FnSpec == Init /\ [][FnNext]_vars

----------------------------------------------------------------------------
(* The Sheets-backed app: show_add_form and show_inventory *)

\* the row gone wrong: the Total column repeats PCS
SheetRow_TotalIsPieces(company, dno, f, delivery, rate) ==
    [company |-> company, dno |-> dno, matching |-> f.matching, pcs |-> f.pcs,
     delivery |-> delivery, rate |-> rate, total |-> f.pcs]

\* row / new_row_data, the columns the ledger reads
SheetRow(company, dno, f, delivery, rate) ==
    [company |-> company, dno |-> dno, matching |-> f.matching, pcs |-> f.pcs,
     delivery |-> delivery, rate |-> rate, total |-> f.pcs * rate]

RemoveAt(q, i) == SubSeq(q, 1, i - 1) \o SubSeq(q, i + 1, Len(q))

\* show_add_form, the form submitted with "Add"
SheetAdd ==
    \E ci \in CompanyInputs, di \in DnoInputs, rows \in StoreForms :
        LET company == strip(ci)
            dno     == strip(di)
            f       == sheet_form(rows)
            done(r) == [op |-> "sheet_add", company |-> company, dno |-> dno,
                        row_num |-> 0, result |-> r]
        IN  IF company = <<>> \/ dno = <<>> \/ f.pcs = 0
            THEN last' = done("required") /\ UNCHANGED << sheet, products, view, session_state >>
            ELSE IF sheet_conflict(sheet, company, dno)
            THEN last' = done("duplicate") /\ UNCHANGED << sheet, products, view, session_state >>
            ELSE \E delivery \in Deliveries, rate \in Rates :
                 /\ Len(sheet) < MaxStoreRows
                 /\ sheet' = Append(sheet, SheetRow(company, dno, f, delivery, rate))
                 /\ last' = done("added")
                 /\ UNCHANGED << products, view, session_state >>

\* show_inventory, the edit form of sheet row row_num submitted with "Update"; the
\* form is on the page when its pre-filling did not raise
SheetUpdate ==
    \E row_num \in 2..(Len(sheet) + 1), ci \in CompanyInputs, di \in DnoInputs :
        LET company == strip(ci)
            dno     == strip(di)
            rate    == sheet[row_num - 1].rate
            scan    == edit_duplicate_scan(company, dno, row_num)
            done(r) == [op |-> "sheet_update", company |-> company, dno |-> dno,
                        row_num |-> row_num, result |-> r]
        IN  /\ edit_prefill(sheet[row_num - 1].matching).ok
            /\ IF ~scan.ok
               THEN last' = done(scan.err) /\ UNCHANGED << sheet, products, view, session_state >>
               ELSE IF scan.v
               THEN last' = done("duplicate") /\ UNCHANGED << sheet, products, view, session_state >>
               ELSE \E rows \in StoreForms, delivery \in Deliveries :
                    /\ sheet' = [sheet EXCEPT ![row_num - 1] =
                                    SheetRow(company, dno, sheet_form(rows), delivery, rate)]
                    /\ last' = done("updated")
                    /\ UNCHANGED << products, view, session_state >>

\* show_inventory, the edit form of sheet row row_num submitted with "Delete"
SheetDelete ==
    \E row_num \in 2..(Len(sheet) + 1) :
        /\ edit_prefill(sheet[row_num - 1].matching).ok
        /\ sheet' = RemoveAt(sheet, row_num - 1)
        /\ last' = [op |-> "sheet_delete", company |-> sheet[row_num - 1].company,
                    dno |-> sheet[row_num - 1].dno, row_num |-> row_num,
                    result |-> "deleted"]
        /\ UNCHANGED << products, view, session_state >>

----------------------------------------------------------------------------
(* The SQLite-backed app: the action handlers *)

\* the page runs load_table_dataframe before any handler
SqlPageUp == load_table_dataframe(fetch_all(products)).ok

\* add_or_edit_dialog: the payload of the dialog
Payload(company, dno, rows, delivery, rate) ==
    [company |-> company, dno |-> dno, matching |-> matching_editor(rows).text,
     pcs |-> matching_editor(rows).total, delivery_pcs |-> delivery, rate |-> rate,
     total |-> matching_editor(rows).total * rate]

\* INTEGER PRIMARY KEY AUTOINCREMENT
NextId == IF products = {} THEN 1 ELSE 1 + MaxOf({r.id : r \in products})
ProductRow(id, pl) ==
    [id |-> id, company |-> pl.company, dno |-> pl.dno, matching |-> pl.matching,
     pcs |-> pl.pcs, delivery_pcs |-> pl.delivery_pcs, rate |-> pl.rate,
     total |-> pl.total]

\* add_product / update_product / delete_products
add_product(pl) == products \cup {ProductRow(NextId, pl)}
update_product(id, pl) == {IF r.id = id THEN ProductRow(id, pl) ELSE r : r \in products}
delete_products(ids) == {r \in products : r.id \notin ids}

\* str(x) of a float with a whole value, as csv.writer writes a REAL column
FloatStr(n) == str(n) \o <<".", "0">>

\* Export All CSV: the header row the export writes
ExportHeader ==
    << "ID", "COMPANY NAME", "D.NO.", "MATCHING", "Diamond", "PCS", "DELIVERY PCS",
       "Assignee", "Type", "Rate", "Total", "Image" >>

\* writer.writerow(row) read back by csv.reader: the 12 fields of a product as text
export_row(r) ==
    << str(r.id), r.company, r.dno, r.matching, <<>>, str(r.pcs), str(r.delivery_pcs),
       <<>>, <<>>, FloatStr(r.rate), FloatStr(r.total), <<>> >>

\* Export All CSV: the data rows of the file, in id order
RECURSIVE export_rows(_)
export_rows(rows) ==
    IF rows = {} THEN <<>>
    ELSE LET r == CHOOSE x \in rows : \A y \in rows : x.id <= y.id
         IN  << export_row(r) >> \o export_rows(rows \ {r})

\* tables whose export is uploaded
ExportTables ==
    SUBSET { ProductRow(1, Payload(Acme, D100, << << <<"R">>, 3 >>, << <<"B">>, 2 >> >>, 1, 10)),
             ProductRow(2, Payload(Beta, D200, << << <<"R">>, 2 >> >>, 0, 2)) }

\* the files that can be uploaded: typed by hand, or written by the export
UploadFiles == CsvFiles \cup TwoRowFiles \cup {export_rows(T) : T \in ExportTables}

\* Add: "Save New"
SqlAddSave ==
    /\ SqlPageUp
    /\ \E ci \in CompanyInputs, di \in DnoInputs :
        LET company == strip(ci)
            dno     == strip(di)
            e       == dno_exists(products, dno, None)
            done(r) == [op |-> "sql_add", company |-> company, dno |-> dno,
                        row_num |-> 0, result |-> r]
        IN  IF dno = <<>>
            THEN last' = done("required") /\ UNCHANGED << sheet, products, view, session_state >>
            ELSE IF ~e.ok
            THEN last' = done(e.err) /\ UNCHANGED << sheet, products, view, session_state >>
            ELSE IF e.v
            THEN last' = done("duplicate") /\ UNCHANGED << sheet, products, view, session_state >>
            ELSE \E rows \in StoreForms, delivery \in Deliveries, rate \in Rates :
                 /\ Cardinality(products) < MaxStoreRows
                 /\ products' = add_product(Payload(company, dno, rows, delivery, rate))
                 /\ last' = done("added")
                 /\ UNCHANGED << sheet, view, session_state >>

\* Edit: "Save Changes" with one selected id.  pid is the list selected_ids itself;
\* pandas compares the ID column with a list only when their lengths agree
SqlEditSave ==
    /\ SqlPageUp
    /\ \E id \in 1..MaxRows, ci \in CompanyInputs, di \in DnoInputs :
        LET company == strip(ci)
            dno     == strip(di)
            e       == dno_exists(products, dno, id)
            done(r) == [op |-> "sql_edit", company |-> company, dno |-> dno,
                        row_num |-> id, result |-> r]
        IN  IF Cardinality(products) # 1
            THEN last' = done("ValueError") /\ UNCHANGED << sheet, products, view, session_state >>
            ELSE IF \A r \in products : r.id # id
            THEN last' = done("not_found") /\ UNCHANGED << sheet, products, view, session_state >>
            ELSE IF dno = <<>>
            THEN last' = done("required") /\ UNCHANGED << sheet, products, view, session_state >>
            ELSE IF ~e.ok
            THEN last' = done(e.err) /\ UNCHANGED << sheet, products, view, session_state >>
            ELSE IF e.v
            THEN last' = done("duplicate") /\ UNCHANGED << sheet, products, view, session_state >>
            ELSE \E rows \in StoreForms, delivery \in Deliveries, rate \in Rates :
                 /\ products' = update_product(id, Payload(company, dno, rows, delivery, rate))
                 /\ last' = done("updated")
                 /\ UNCHANGED << sheet, view, session_state >>

\* Delete, confirmed
SqlDelete ==
    /\ SqlPageUp
    /\ \E ids \in SUBSET (1..MaxRows) :
        /\ products' = (IF ids = {} THEN products ELSE delete_products(ids))
        /\ last' = [op |-> "sql_delete", company |-> <<>>, dno |-> <<>>, row_num |-> 0,
                    result |-> IF ids = {} THEN "select_ids" ELSE "deleted"]
        /\ UNCHANGED << sheet, view, session_state >>

\* row.strip() on the list a csv.reader yields
list_strip(row) == [ok |-> FALSE, err |-> "AttributeError"]

\* the body of "for row in reader": the table after the row, and whether it counted
import_row(table, row) ==
    IF Len(row) # ExpectedHeaderLen THEN [table |-> table, imported |-> 0]
    ELSE IF ~list_strip(row).ok THEN [table |-> table, imported |-> 0]
    ELSE LET pid == IF isdigit(strip(row[1])) THEN DigitsToInt(strip(row[1])) ELSE None
             new == [id |-> pid, company |-> row[2], dno |-> row[3], matching |-> row[4],
                     pcs |-> IF isdigit(strip(row[6])) THEN DigitsToInt(strip(row[6])) ELSE 0,
                     delivery_pcs |-> IF isdigit(strip(row[7])) THEN DigitsToInt(strip(row[7])) ELSE 0,
                     rate |-> IF PyInt(row[10]).ok THEN PyInt(row[10]).v ELSE 0,
                     total |-> IF PyInt(row[11]).ok THEN PyInt(row[11]).v ELSE 0]
         IN  [table |-> {r \in table : r.id # pid} \cup {new}, imported |-> 1]

RECURSIVE import_rows(_, _)
import_rows(table, file) ==
    IF file = <<>> THEN [table |-> table, imported |-> 0]
    ELSE LET h == import_row(table, Head(file))
             t == import_rows(h.table, Tail(file))
         IN  [table |-> t.table, imported |-> h.imported + t.imported]

\* the header test gone wrong: the names are compared whatever their order
headers_differ_AsSets(headers) == Range(headers) # Range(ExpectedHeader)

\* if headers != expected
headers_differ(headers) == headers # ExpectedHeader

\* Import CSV, a file uploaded; the data rows are read from the csv.reader only
\* when the header row is the expected one
SqlImport ==
    /\ SqlPageUp
    /\ \E headers \in Headers :
        LET done(file, n, r) == [op |-> "sql_import", company |-> <<>>, dno |-> <<>>,
                                 headers |-> headers, file |-> file,
                                 row_num |-> n, result |-> r]
        IN  IF headers_differ(headers)
            THEN last' = done(<<>>, 0, "schema_mismatch") /\ UNCHANGED << sheet, products, view, session_state >>
            ELSE \E file \in UploadFiles :
                 /\ products' = import_rows(products, file).table
                 /\ last' = done(file, import_rows(products, file).imported, "imported")
                 /\ UNCHANGED << sheet, view, session_state >>

Next ==
    \/ SheetAdd
    \/ SheetUpdate
    \/ SheetDelete
    \/ SqlAddSave
    \/ SqlEditSave
    \/ SqlDelete
    \/ SqlImport

Spec == Init /\ [][Next]_vars

----------------------------------------------------------------------------
(* The Sheets-backed app used from two browser sessions.  A script run reads the
   sheet and writes it with separate calls of the Sheets API; the runs of the two
   sessions interleave between those calls. *)

\* the products the sessions type: two spellings of one key, and another key
ConcKeys == { << Acme, D100 >>, << AcmeUpper, D100 >>, << Acme, D200 >> }
ConcForm == sheet_form(<< << <<"R">>, 2 >> >>)
ConcRow(key) == SheetRow(key[1], key[2], ConcForm, 3, 2)

\* show_inventory: df = pd.DataFrame(sheet.get_all_records()), SheetRowNum = index + 2
SessionLoad(s) ==
    /\ view[s].add = <<>>
    /\ view' = [view EXCEPT ![s].df = sheet]
    /\ last' = [op |-> "load", session |-> s, company |-> <<>>, dno |-> <<>>,
                row_num |-> 0, result |-> "loaded"]
    /\ UNCHANGED << sheet, products, session_state >>

\* show_add_form, "Add" pressed with all required fields: existing =
\* sheet.get_all_records() and the scan of it
SessionAddCheck(s) ==
    /\ view[s].add = <<>>
    /\ \E key \in ConcKeys :
        LET done(r) == [op |-> "add_check", session |-> s, company |-> key[1],
                        dno |-> key[2], row_num |-> 0, result |-> r]
        IN  IF sheet_conflict(sheet, key[1], key[2])
            THEN last' = done("duplicate") /\ UNCHANGED << sheet, products, view, session_state >>
            ELSE /\ view' = [view EXCEPT ![s].add = << ConcRow(key) >>]
                 /\ last' = done("clear")
                 /\ UNCHANGED << sheet, products, session_state >>

\* show_add_form: sheet.append_row(row), then st.rerun() reads the sheet again
SessionAddWrite(s) ==
    /\ view[s].add # <<>>
    /\ Len(sheet) < MaxRows
    /\ sheet' = Append(sheet, view[s].add[1])
    /\ view' = [view EXCEPT ![s] = [df |-> sheet', add |-> <<>>]]
    /\ last' = [op |-> "add_write", session |-> s, company |-> view[s].add[1].company,
                dno |-> view[s].add[1].dno, row_num |-> 0, result |-> "added"]
    /\ UNCHANGED << products, session_state >>

\* show_inventory, "Update" pressed in the edit form of row i of the session's df
SessionUpdate(s) ==
    /\ view[s].add = <<>>
    /\ \E i \in DOMAIN view[s].df, key \in ConcKeys :
        LET row_num == i + 1
            scan    == edit_duplicate_scan(key[1], key[2], row_num)
            done(r) == [op |-> "sheet_update", session |-> s, company |-> key[1],
                        dno |-> key[2], row_num |-> row_num, result |-> r]
        IN  /\ edit_prefill(view[s].df[i].matching).ok
            /\ IF ~scan.ok
               THEN last' = done(scan.err) /\ UNCHANGED << sheet, products, view, session_state >>
               ELSE IF scan.v
               THEN last' = done("duplicate") /\ UNCHANGED << sheet, products, view, session_state >>
               ELSE /\ i <= Len(sheet)
                    /\ sheet' = [sheet EXCEPT ![i] = ConcRow(key)]
                    /\ view' = [view EXCEPT ![s].df = sheet']
                    /\ last' = done("updated")
                    /\ UNCHANGED << products, session_state >>

\* show_inventory, "Delete" pressed in the edit form of row i of the session's df:
\* sheet.delete_rows(row_num), then st.rerun() reads the sheet again
SessionDelete(s) ==
    /\ view[s].add = <<>>
    /\ \E i \in DOMAIN view[s].df :
        /\ edit_prefill(view[s].df[i].matching).ok
        /\ sheet' = (IF i <= Len(sheet) THEN RemoveAt(sheet, i) ELSE sheet)
        /\ view' = [view EXCEPT ![s].df = sheet']
        /\ last' = [op |-> "sheet_delete", session |-> s,
                    company |-> view[s].df[i].company, dno |-> view[s].df[i].dno,
                    row_num |-> i + 1, result |-> "deleted"]
        /\ UNCHANGED << products, session_state >>

ConcNext ==
    \E s \in Sessions :
        \/ SessionLoad(s)
        \/ SessionAddCheck(s)
        \/ SessionAddWrite(s)
        \/ SessionUpdate(s)
        \/ SessionDelete(s)

ConcSpec == Init /\ [][ConcNext]_vars

----------------------------------------------------------------------------
(* The Sheets-backed app in one session, with the edit_rows_<row> lists that
   show_inventory keeps in st.session_state.  session_state is the function from
   the row numbers that have a key edit_rows_<row> to the list kept under it. *)

\* the products the session adds: trimmed colors, positive counts
CacheForms ==
    { << << <<"R">>, 2 >> >>, << << <<"B">>, 1 >> >>, << << <<"R">>, 1 >>, << <<"G">>, 2 >> >> }

\* f"Color{n}"
ColorN(n) == <<"C", "o", "l", "o", "r">> \o str(n)

\* SheetRowNum = index + 2 of the rows of the sheet
RowNums(rows) == {i + 1 : i \in DOMAIN rows}

\* one pass of the loop of show_inventory over the products: a row number without
\* a key gets the color names of the Matching text stored at that row, a row
\* number with a key keeps its list
render(rows, state) ==
    [r \in DOMAIN state \cup RowNums(rows) |->
        IF r \in DOMAIN state THEN state[r] ELSE edit_rows_init(rows[r - 1].matching)]

\* every edit form of the pass gets past the pre-filling of its count fields
renders(rows, state) ==
    \A r \in RowNums(rows) : PrefillRows(rows[r - 1].matching, state[r]).ok

\* del st.session_state[f"edit_rows_{row_num}"], when the key is there
del_edit_rows(state, row_num) == [r \in DOMAIN state \ {row_num} |-> state[r]]

\* a script run with nothing pressed
CacheView ==
    /\ session_state' = render(sheet, session_state)
    /\ renders(sheet, session_state')
    /\ last' = [op |-> "view", company |-> <<>>, dno |-> <<>>, row_num |-> 0,
                result |-> "shown"]
    /\ UNCHANGED << sheet, products, view >>

\* show_add_form with all required fields, then the run that st.rerun() starts
CacheAdd ==
    \E key \in ConcKeys :
        LET done(r) == [op |-> "sheet_add", company |-> key[1], dno |-> key[2],
                        row_num |-> 0, result |-> r]
        IN  IF sheet_conflict(sheet, key[1], key[2])
            THEN last' = done("duplicate")
                 /\ UNCHANGED << sheet, products, view, session_state >>
            ELSE \E f \in CacheForms :
                 /\ Len(sheet) < MaxRows
                 /\ sheet' = Append(sheet, SheetRow(key[1], key[2], sheet_form(f), 3, 2))
                 /\ session_state' = render(sheet', session_state)
                 /\ renders(sheet', session_state')
                 /\ last' = done("added")
                 /\ UNCHANGED << products, view >>

\* the "Add New Matching Field" button of the edit form of row row_num
CacheAddField ==
    \E row_num \in RowNums(sheet) \cap DOMAIN session_state :
        LET grown == [session_state EXCEPT ![row_num] =
                        Append(@, ColorN(Len(session_state[row_num]) + 1))]
        IN  /\ Len(session_state[row_num]) < MaxEntries
            /\ session_state' = render(sheet, grown)
            /\ renders(sheet, session_state')
            /\ last' = [op |-> "add_field", company |-> sheet[row_num - 1].company,
                        dno |-> sheet[row_num - 1].dno, row_num |-> row_num,
                        result |-> "added"]
            /\ UNCHANGED << sheet, products, view >>

\* "Update" in the edit form of row row_num, submitted as pre-filled
CacheUpdate ==
    \E row_num \in RowNums(sheet) \cap DOMAIN session_state :
        LET row     == sheet[row_num - 1]
            scan    == edit_duplicate_scan(row.company, row.dno, row_num)
            f       == sheet_form(PrefillRows(row.matching, session_state[row_num]).rows)
            done(r) == [op |-> "sheet_update", company |-> row.company, dno |-> row.dno,
                        row_num |-> row_num, result |-> r]
        IN  IF ~scan.ok
            THEN last' = done(scan.err)
                 /\ UNCHANGED << sheet, products, view, session_state >>
            ELSE IF scan.v
            THEN last' = done("duplicate")
                 /\ UNCHANGED << sheet, products, view, session_state >>
            ELSE /\ sheet' = [sheet EXCEPT ![row_num - 1] =
                                 SheetRow(row.company, row.dno, f, row.delivery, row.rate)]
                 /\ session_state' = render(sheet', session_state)
                 /\ renders(sheet', session_state')
                 /\ last' = done("updated")
                 /\ UNCHANGED << products, view >>

\* "Delete" in the edit form of row row_num: sheet.delete_rows(row_num), the key
\* of that row number deleted, then the run that st.rerun() starts
CacheDelete ==
    \E row_num \in RowNums(sheet) \cap DOMAIN session_state :
        /\ sheet' = RemoveAt(sheet, row_num - 1)
        /\ session_state' = render(sheet', del_edit_rows(session_state, row_num))
        /\ renders(sheet', session_state')
        /\ last' = [op |-> "sheet_delete", company |-> sheet[row_num - 1].company,
                    dno |-> sheet[row_num - 1].dno, row_num |-> row_num,
                    result |-> "deleted"]
        /\ UNCHANGED << products, view >>

CacheNext ==
    \/ CacheView
    \/ CacheAdd
    \/ CacheAddField
    \/ CacheUpdate
    \/ CacheDelete

CacheSpec == Init /\ [][CacheNext]_vars

----------------------------------------------------------------------------
(* The serializer: C4 .. C8, checked under FnSpec *)

NoSeparator(color) == "," \notin Range(color) /\ ":" \notin Range(color)
Trimmed(color) == color # <<>> /\ ~IsSpace(color[1]) /\ ~IsSpace(color[Len(color)])
Count(s, e) == Cardinality({i \in DOMAIN s : s[i] = e})
SameBag(a, b) == \A e \in Range(a) \cup Range(b) : Count(a, e) = Count(b, e)
\* the breakdowns of C4: positive pieces, no ',' and no ':' in a color
ClaimBreakdown(b) == \A i \in DOMAIN b : b[i][2] > 0 /\ NoSeparator(b[i][1])
TrimmedColors(b) == \A i \in DOMAIN b : Trimmed(b[i][1])

\* C4 as stated: for every breakdown of positive pieces whose colors hold no ',' and
\* no ':', parsing its serialized form gives back the same multiset of (color, pieces).
C4_RoundTripAnyColor ==
    (last.op = "round_trip" /\ ClaimBreakdown(last.arg))
        => (last.res.ok /\ SameBag(last.res.pairs, last.arg))

\* C4 amended: the same, for colors that are moreover non-empty and carry no blank at
\* either end (build_matching_string strips the color and leaves out an empty one).
C4_RoundTripTrimmedColor ==
    (last.op = "round_trip" /\ ClaimBreakdown(last.arg) /\ TrimmedColors(last.arg))
        => (last.res.ok /\ SameBag(last.res.pairs, last.arg))

\* a three-entry breakdown that repeats an entry came back whole
C4_Witness ==
    /\ last.op = "round_trip"
    /\ ClaimBreakdown(last.arg) /\ TrimmedColors(last.arg)
    /\ Len(last.arg) = 3 /\ last.arg[1] = last.arg[2] /\ last.arg[3] # last.arg[1]
    /\ last.res.ok /\ Len(last.res.pairs) = 3

\* C5: the serialized string holds no entry whose pieces is 0 or less, and an empty
\* or all-zero breakdown serializes to the empty string.
C5_ZeroSuppressed ==
    last.op = "build_matching_string" =>
        /\ (\A i \in DOMAIN last.arg : last.arg[i][2] <= 0) => last.res.text = <<>>
        /\ \A pr \in Range(parse_matching_string(last.res.text).pairs) : pr[2] > 0

\* The reading of a Matching text that the tolerant parse describes, over index sets
\* the stretches of t between its commas, as <<first, last>> (last = first - 1: empty)
SegmentSpans(t) ==
    {sp \in (1..(Len(t) + 1)) \X (0..Len(t)) :
        /\ sp[2] >= sp[1] - 1
        /\ (sp[1] = 1 \/ t[sp[1] - 1] = ",")
        /\ (sp[2] = Len(t) \/ t[sp[2] + 1] = ",")
        /\ \A k \in sp[1]..sp[2] : t[k] # ","}
TrimOf(s) ==
    LET ns == {i \in DOMAIN s : s[i] # " "} IN
    IF ns = {} THEN <<>> ELSE SubSeq(s, MinOf(ns), MaxOf(ns))
FirstColon(seg) == MinOf({i \in DOMAIN seg : seg[i] = ":"})
ColorSide(seg) == TrimOf(SubSeq(seg, 1, FirstColon(seg) - 1))
CountSide(seg) == TrimOf(SubSeq(seg, FirstColon(seg) + 1, Len(seg)))
IsDigitRun(s) == s # <<>> /\ \A i \in DOMAIN s : s[i] \in Range(Digits)
\* an integer in decimal notation: digits, with or without a sign in front
IsIntegerText(s) ==
    IsDigitRun(s) \/ (Len(s) > 1 /\ s[1] \in {"-", "+"} /\ IsDigitRun(Tail(s)))
RECURSIVE Pow10(_)
Pow10(k) == IF k = 0 THEN 1 ELSE 10 * Pow10(k - 1)
DigitRunValue(s) == SumSeq([i \in DOMAIN s |-> DigitVal(s[i]) * Pow10(Len(s) - i)])
IntegerValue(s) ==
    IF s[1] = "-" THEN 0 - DigitRunValue(Tail(s))
    ELSE IF s[1] = "+" THEN DigitRunValue(Tail(s))
    ELSE DigitRunValue(s)
\* the entries of t in input order, a segment being kept when it holds a ':' and
\* its count side passes Accept
ExpectedEntries(t, Accept(_)) ==
    LET K == {sp \in SegmentSpans(t) :
                /\ ":" \in Range(SubSeq(t, sp[1], sp[2]))
                /\ Accept(CountSide(SubSeq(t, sp[1], sp[2])))}
        nth(i) == CHOOSE sp \in K : Cardinality({q \in K : q[1] < sp[1]}) = i - 1
    IN  [i \in 1..Cardinality(K) |->
            << ColorSide(SubSeq(t, nth(i)[1], nth(i)[2])),
               IntegerValue(CountSide(SubSeq(t, nth(i)[1], nth(i)[2]))) >>]

\* C6 as stated: parse splits on ',' and each segment on its first ':'; a segment
\* with no ':' or whose count side is not an integer is dropped, every other segment
\* gives one (trimmed color, count) entry, in input order.
C6_ParseKeepsEveryInteger ==
    last.op = "parse_matching_string" =>
        (last.res.ok /\ last.res.pairs = ExpectedEntries(last.arg, IsIntegerText))

\* C7: reading a stored Matching text never raises, whatever the text: the parser
\* and the pre-filling of the edit form both end with a breakdown.
C7_ReadNeverRaises ==
    last.op \in {"parse_matching_string", "edit_prefill"} => last.res.ok

PiecesOf(rows) == SumSeq([i \in DOMAIN rows |-> rows[i][2]])
\* C8: the total is the sum of the pieces of all the entries, an entry that repeats
\* a color counting on its own, also for a breakdown typed into a form.
C8_TotalCountsEveryEntry ==
    /\ (last.op = "build_matching_string"
            /\ \A i \in DOMAIN last.arg : strip(last.arg[i][1]) # <<>> /\ last.arg[i][2] >= 0)
        => last.res.total = PiecesOf(last.arg)
    /\ last.op = "matching_editor"
        => last.res.total = PiecesOf(SelectSeq(last.arg, LAMBDA r : strip(r[1]) # <<>>))
    /\ last.op = "sheet_form"
        => last.res.pcs = PiecesOf(SelectSeq(last.arg, LAMBDA r : r[1] # <<>>))

----------------------------------------------------------------------------
(* The pending column: C10, and the uniqueness checks: C1, checked under FnSpec *)

RankById(rows, r) == 1 + Cardinality({x \in rows : x.id < r.id})

\* C10: the pending value shown for every product is its pieces minus its delivered
\* pieces, with no floor at zero (5 pieces, 8 delivered: -3), in both table views.
C10_PendingIsDifference ==
    /\ last.op = "load_table_dataframe" =>
            /\ last.res.ok
            /\ \A r \in last.rows :
                    last.res.pending[RankById(last.rows, r)] = r.pcs - r.delivery_pcs
    /\ last.op = "sheet_pending" =>
            /\ last.res.ok
            /\ \A i \in DOMAIN last.rows :
                    last.res.pending[i] = last.rows[i].pcs - last.rows[i].delivery

SameKey(c1, d1, c2, d2) == lower(c1) = lower(c2) /\ lower(d1) = lower(d2)

\* C1: each uniqueness check answers, and answers "not unique" exactly when a stored
\* record other than the excluded one has the candidate's company and design number
\* under case-insensitive comparison.
C1_UniquenessCheck ==
    /\ last.op = "dno_exists" =>
            /\ last.res.ok
            /\ last.res.v <=> \E r \in last.rows :
                                /\ r.id # last.exclude_id
                                /\ SameKey(r.company, r.dno, last.company, last.dno)
    /\ last.op = "sheet_conflict" =>
            /\ last.res.ok
            /\ last.res.v <=> \E i \in DOMAIN last.rows :
                                SameKey(last.rows[i].company, last.rows[i].dno,
                                        last.company, last.dno)
    /\ last.op = "edit_duplicate_scan" =>
            /\ last.res.ok
            /\ last.res.v <=> \E i \in DOMAIN last.rows :
                                /\ i + 1 # last.row_num
                                /\ SameKey(last.rows[i].company, last.rows[i].dno,
                                           last.company, last.dno)

----------------------------------------------------------------------------
(* The stores: C2, C3 and C9, checked under Spec *)

\* a submitted key meets the key of a stored record other than the one at position skip
SheetCollides(rows, company, dno, skip) ==
    \E i \in DOMAIN rows :
        i # skip /\ SameKey(rows[i].company, rows[i].dno, company, dno)
TableCollides(rows, company, dno, skip) ==
    \E r \in rows : r.id # skip /\ SameKey(r.company, r.dno, company, dno)

\* C2: an add or an edit submitted with all its required fields and a key that
\* collides with another stored record ends with the duplicate-key rejection, and
\* both stores are what they were before the submission.
C2_CollisionRejected ==
    [][ /\ ( /\ last'.op \in {"sheet_add", "sheet_update"}
             /\ last'.result # "required"
             /\ SheetCollides(sheet, last'.company, last'.dno, last'.row_num - 1) )
            => (last'.result = "duplicate" /\ UNCHANGED << sheet, products >>)
        /\ ( /\ last'.op \in {"sql_add", "sql_edit"}
             /\ last'.result # "required"
             /\ TableCollides(products, last'.company, last'.dno, last'.row_num) )
            => (last'.result = "duplicate" /\ UNCHANGED << sheet, products >>)
      ]_vars

\* C3: in every state reached from the empty stores by adds, edits, deletes and CSV
\* imports, no two stored products have the same (company, design number) under
\* case-insensitive comparison.
C3_UniqueBusinessKeys ==
    /\ \A i, j \in DOMAIN sheet :
            i # j => ~SameKey(sheet[i].company, sheet[i].dno, sheet[j].company, sheet[j].dno)
    /\ \A x, y \in products :
            x # y => ~SameKey(x.company, x.dno, y.company, y.dno)

\* two products are stored and an add under the key of one of them, spelled in another
\* case, has just been turned down
C3_Witness ==
    /\ Len(sheet) = 2
    /\ last.op = "sheet_add" /\ last.result = "duplicate"
    /\ \E i \in DOMAIN sheet :
            /\ SameKey(sheet[i].company, sheet[i].dno, last.company, last.dno)
            /\ sheet[i].company # last.company

\* C9: in every reachable state the PCS of each stored product is the sum of the
\* piece counts read from its stored Matching text.
C9_PcsMatchesMatching ==
    /\ \A i \in DOMAIN sheet :
            /\ parse_matching_string(sheet[i].matching).ok
            /\ parse_matching_string(sheet[i].matching).total = sheet[i].pcs
    /\ \A r \in products :
            /\ parse_matching_string(r.matching).ok
            /\ parse_matching_string(r.matching).total = r.pcs

----------------------------------------------------------------------------
(* The CSV import and export of the SQLite app: C12 .. C15, checked under Spec *)

\* C12: an import whose header row is not exactly the expected list of names (same
\* names, same order, same length) ends with the schema-mismatch error and leaves
\* the table as it was.
C12_SchemaMismatchRejected ==
    [][ (last'.op = "sql_import" /\ last'.headers # ExpectedHeader)
            => (last'.result = "schema_mismatch" /\ products' = products) ]_vars

\* a file with the expected names in another order has just been turned down
C12_Witness ==
    /\ last.op = "sql_import"
    /\ last.headers = HeaderSwapped
    /\ last.result = "schema_mismatch"

\* C13: the header the export writes is accepted by the import, and importing the
\* export of a table into an empty table gives that table back, field for field.
C13_ExportImportRoundTrip ==
    [][ \A T \in ExportTables :
            ( /\ last'.op = "sql_import"
              /\ last'.headers = ExportHeader /\ last'.file = export_rows(T)
              /\ products = {} )
            => (last'.result = "imported" /\ products' = T) ]_vars

\* C14: in an import with the expected header, a 12-field row with a business key
\* whose PCS or Rate is no number is stored all the same, with that field set to 0.
C14_BadNumberStoredAsZero ==
    [][ (last'.op = "sql_import" /\ last'.headers = ExpectedHeader) =>
            \A i \in DOMAIN last'.file :
                LET row == last'.file[i] IN
                ( /\ Len(row) = ExpectedHeaderLen
                  /\ row[2] # <<>> /\ row[3] # <<>>
                  /\ (row[6] = BadNumber \/ row[10] = BadNumber) )
                => \E r \in products' :
                        /\ r.company = row[2] /\ r.dno = row[3]
                        /\ row[6] = BadNumber => r.pcs = 0
                        /\ row[10] = BadNumber => r.rate = 0 ]_vars

EmptyKey(row) == Len(row) >= 3 /\ (row[2] = <<>> \/ row[3] = <<>>)

\* C15: in an import with the expected header of a file that holds a row with an
\* empty company or design number, that row is not stored, and every other complete
\* row of the file is.
C15_EmptyKeyRowSkipped ==
    [][ ( /\ last'.op = "sql_import" /\ last'.headers = ExpectedHeader
          /\ \E i \in DOMAIN last'.file : EmptyKey(last'.file[i]) )
        => \A i \in DOMAIN last'.file :
              LET row == last'.file[i] IN
              /\ EmptyKey(row) =>
                    ~\E r \in products' : r.company = row[2] /\ r.dno = row[3]
              /\ (Len(row) = ExpectedHeaderLen /\ ~EmptyKey(row)) =>
                    \E r \in products' : r.company = row[2] /\ r.dno = row[3] ]_vars

----------------------------------------------------------------------------
(* Parse, then serialize: C16, checked under FnSpec *)

\* C16: for a text "Color:N, Color:N" of non-empty colors and positive counts,
\* serializing its parse gives the text back; for a text that differs from it only
\* in blanks around ',' and ':' it gives that canonical text; and parse-then-serialize
\* applied twice gives what it gives applied once.
C16_ReserializeIsCanonical ==
    /\ last.op = "reserialize" =>
            /\ last.canonical.ok /\ last.canonical.text = CanonicalText(last.breakdown)
            /\ last.once.ok /\ last.once.text = CanonicalText(last.breakdown)
            /\ reserialize(last.once.text) = last.once
    /\ (last.op = "reserialize_text" /\ last.once.ok) =>
            reserialize(last.once.text) = last.once

\* a two-entry text with a blank on each side of every color and count came back in
\* canonical form
C16_Witness ==
    /\ last.op = "reserialize"
    /\ Len(last.breakdown) = 2 /\ last.breakdown[2][2] = 12
    /\ \A k \in 1..4 : last.pads[k] = <<" ">>
    /\ last.once.ok /\ last.once.text = CanonicalText(last.breakdown)
    /\ last.once.text # last.arg

----------------------------------------------------------------------------
(* The edit form left untouched: C19, checked under FnSpec *)

----------------------------------------------------------------------------
(* Two sessions on one sheet: C17, C18, C20, checked under ConcSpec *)

\* session s holds row i of the sheet in its df exactly as the sheet stores it
Shows(s, i) == i \in DOMAIN view[s].df /\ i <= Len(sheet) /\ view[s].df[i] = sheet[i]

\* C17: when both sessions have loaded the same product and one of them presses
\* Update, the save succeeds and the stored row becomes what that session
\* submitted, so of two such saves the later one is what the sheet keeps.
C17_BothSavesSucceed ==
    [][ (last'.op = "sheet_update" /\ \A s \in Sessions : Shows(s, last'.row_num - 1))
        => /\ last'.result = "updated"
           /\ sheet'[last'.row_num - 1] = ConcRow(<< last'.company, last'.dno >>) ]_vars

\* C18: the scan for the key and the append are separate steps.  The scan answers
\* for the sheet as it is when it runs, and the append that follows a clear scan
\* adds the row whatever the sheet holds by then.
C18_CheckAndWriteApart ==
    [][ /\ last'.op = "add_check"
            => /\ sheet' = sheet
               /\ (last'.result = "clear")
                    <=> ~SheetCollides(sheet, last'.company, last'.dno, 0)
        /\ last'.op = "add_write"
            => /\ last'.result = "added"
               /\ sheet' = Append(sheet, view[last'.session].add[1]) ]_vars

\* two sessions both passed the scan for one key and both appended
C18_Witness ==
    /\ last.op = "add_write"
    /\ Len(sheet) = 2
    /\ SameKey(sheet[1].company, sheet[1].dno, sheet[2].company, sheet[2].dno)

\* C20: when the product a form showed is still stored, Delete in that form
\* removes the row holding that product and no other, whatever another session
\* appended or deleted since this session read the sheet.
C20_DeleteHitsShownProduct ==
    [][ LET shown == view[last'.session].df[last'.row_num - 1]
        IN  (last'.op = "sheet_delete" /\ \E i \in DOMAIN sheet : sheet[i] = shown)
            => \E i \in DOMAIN sheet :
                   /\ sheet[i] = shown
                   /\ sheet' = RemoveAt(sheet, i) ]_vars

----------------------------------------------------------------------------
(* The edit_rows_<row> lists of one session: C21, checked under CacheSpec *)

\* the list names the colors of the Matching text, in order, followed only by the
\* fields the session added to it
ListsColorsOf(list, matching) ==
    LET own == edit_rows_init(matching)
    IN  /\ Len(list) >= Len(own)
        /\ SubSeq(list, 1, Len(own)) = own
        /\ \A k \in (Len(own) + 1)..Len(list) : list[k] = ColorN(k)

\* C21: whatever the session viewed, added, updated and deleted, the list kept
\* under edit_rows_<row> for a row number that holds a product lists the colors
\* of the product stored at that row now.
C21_CacheListsStoredColors ==
    \A r \in DOMAIN session_state \cap RowNums(sheet) :
        ListsColorsOf(session_state[r], sheet[r - 1].matching)

====
